---- MODULE Spec2Model ----
(***************************************************************************)
(* The release-with-cog action: release_with_cog.py (the orchestrator) and  *)
(* setup_cog_config.py (the Config Synchronizer's file update).             *)
(*                                                                          *)
(* Text values.  A Python str is a sequence of tokens, <<>> being "".       *)
(* "https://git.example.com" is <<"https", "://", "git.example.com">>, so   *)
(* that split, strip, lower, startswith and concatenation do what they do   *)
(* in Python on the pieces the code looks at.  None is the value NONE, a    *)
(* sequence holding a reserved token no str contains.                       *)
(*                                                                          *)
(* External tools.  A subprocess call completes with an exit status and an  *)
(* output; the status and the output are chosen nondeterministically at     *)
(* the step that makes the call.  The create-release call of the forge      *)
(* client either raises or returns a response object.                       *)
(***************************************************************************)
EXTENDS Naturals, Sequences, FiniteSets

VARIABLES
    pc,               \* the statement of main() (or of the script) to run next
    user_input,       \* the action's raw inputs (INPUT_* of the runtime)
    env,              \* the process environment
    file,             \* cog.toml in the working directory
    inputs,           \* main: inputs
    remote,           \* main: remote
    owner,            \* main: owner
    repo,             \* main: repo
    dry_run,          \* main: dry_run
    changes_made,     \* setup_cog_configuration: changes_made
    previous_version, \* main: previous_version
    bump_result,      \* the value bump_version returned
    current_version,  \* main: current_version
    changelog,        \* main: changelog
    release_response, \* main: release_response
    outputs,          \* the named outputs emitted with set_output
    calls,            \* the subprocess calls made, in order, with their exit status
    api_calls,        \* the create-release requests sent to the forge
    stages,           \* the functions main() has called, in order
    log,              \* the messages logged with error(), and with info() by the
                      \* Config Synchronizer step, in order
    raised,           \* the exception that ended the run, <<>> when none
    exit_code,        \* <<>> while running, <<0>> or <<1>> once the process ended
    runs,             \* how many times the Config Synchronizer was started on this file
    file_at_start,    \* cog.toml as it was when the current run started
    cog_on_path       \* whether the runner finds the cog executable on its PATH

vars == <<pc, user_input, env, file, inputs, remote, owner, repo, dry_run,
          changes_made, previous_version, bump_result, current_version,
          changelog, release_response, outputs, calls, api_calls, stages,
          log, raised, exit_code, runs, file_at_start,
          cog_on_path>>

\* How many times in a row the Config Synchronizer is run on the same file.
MaxRuns == 2

----------------------------------------------------------------------------
(* Python values *)

NONE == <<"<None>">>

EMPTY == <<>>

\* bool(x) of an Optional[str]
Truthy(x) == x # NONE /\ x # EMPTY

\* x or d
Or(x, d) == IF Truthy(x) THEN x ELSE d

LowerToken(t) ==
    CASE t = "True" -> "true"
      [] t = "TRUE" -> "true"
      [] t = "False" -> "false"
      [] t = "FALSE" -> "false"
      [] OTHER -> t

\* str.lower()
Lower(s) == [i \in DOMAIN s |-> LowerToken(s[i])]

IsSpace(t) == t \in {" ", "\n"}

\* str.strip()
RECURSIVE Strip(_)
Strip(s) ==
    IF s = EMPTY THEN EMPTY
    ELSE IF IsSpace(Head(s)) THEN Strip(Tail(s))
    ELSE IF IsSpace(s[Len(s)]) THEN Strip(SubSeq(s, 1, Len(s) - 1))
    ELSE s

\* str.split(): the words between runs of whitespace, each a str
RECURSIVE Split(_)
Split(s) ==
    IF s = EMPTY THEN <<>>
    ELSE IF IsSpace(Head(s)) THEN Split(Tail(s))
    ELSE LET rest == Split(Tail(s))
         IN  IF Len(s) > 1 /\ ~IsSpace(s[2])
             THEN <<<<Head(s)>> \o Head(rest)>> \o Tail(rest)
             ELSE <<<<Head(s)>>>> \o rest

\* sep in s
Contains(s, sep) == \E i \in DOMAIN s : s[i] = sep

\* s.split(sep, 1)[1], for s that contains sep
AfterFirst(s, sep) ==
    LET i == CHOOSE k \in DOMAIN s :
                 s[k] = sep /\ \A j \in 1..(k - 1) : s[j] # sep
    IN  SubSeq(s, i + 1, Len(s))

\* s.startswith(("http://", "https://"))
StartsWithScheme(s) ==
    Len(s) >= 2 /\ s[1] \in {"http", "https"} /\ s[2] = "://"

\* json.dumps(v) of a dict v: the text of a JSON object, which json.loads
\* turns back into v
JsonDumps(v) == <<"json", v>>

\* json.dumps(s) of a str s: the text of a JSON string literal, which
\* json.loads turns back into s
JsonDumpsStr(s) == <<"json-string", s>>

\* json.loads(t)
JsonLoads(t) == t[2]

\* d[name] = value on a dict
DictSet(d, name, value) ==
    [k \in DOMAIN d \cup {name} |-> IF k = name THEN value ELSE d[k]]

\* d.get(name, default)
DictGet(d, name, default) == IF name \in DOMAIN d THEN d[name] ELSE default

EmptyDict == [k \in {} |-> EMPTY]

----------------------------------------------------------------------------
(* The runtime's surface: inputs, environment, outputs *)

get_user_input(name) == user_input[name]

get_env(name) == env[name]

set_output(out, name, value) == DictSet(out, name, value)

\* error(msg) and info(msg): the line logged, named by the fixed part of msg
error(msg) == [level |-> "error", msg |-> msg]

info(msg) == [level |-> "info", msg |-> msg]

\* get_action_inputs(): every input with its default
get_action_inputs ==
    [working_directory |-> Or(get_user_input("working_directory"), <<".">>),
     dry_run |-> Or(get_user_input("dry_run"), <<"false">>),
     dry_run_on_non_default_branch |->
         Or(get_user_input("dry_run_on_non_default_branch"), <<"true">>),
     cog_bump_args |-> Or(get_user_input("cog_bump_args"), EMPTY),
     cog_changelog_args |-> Or(get_user_input("cog_changelog_args"), EMPTY),
     remote |-> Or(get_user_input("remote"), EMPTY),
     owner |-> Or(get_user_input("owner"), EMPTY),
     repo |-> Or(get_user_input("repo"), EMPTY),
     create_forgejo_release |->
         Or(get_user_input("create_forgejo_release"), <<"true">>),
     update_cog_toml |-> Or(get_user_input("update_cog_toml"), <<"true">>)]

extract_domain_from_server_url ==
    LET server_url == Or(get_env("GITHUB_SERVER_URL"), EMPTY)
    IN  IF Contains(server_url, "://") THEN AfterFirst(server_url, "://")
        ELSE server_url

extract_repo_from_repository ==
    LET repository == Or(get_env("GITHUB_REPOSITORY"), EMPTY)
    IN  IF Contains(repository, "/") THEN AfterFirst(repository, "/")
        ELSE repository

\* set_default_values with the environment taking precedence over the inputs
set_default_values_env_first(inp) ==
    [remote |-> IF Truthy(extract_domain_from_server_url)
                THEN extract_domain_from_server_url
                ELSE inp.remote,
     owner |-> IF Truthy(get_env("GITHUB_REPOSITORY_OWNER"))
               THEN get_env("GITHUB_REPOSITORY_OWNER")
               ELSE inp.owner,
     repo |-> IF Truthy(extract_repo_from_repository)
              THEN extract_repo_from_repository
              ELSE inp.repo]

\* set_default_values(inputs): the resolved (remote, owner, repo)
set_default_values(inp) ==
    [remote |-> IF ~Truthy(inp.remote) THEN extract_domain_from_server_url
                ELSE inp.remote,
     owner |-> IF ~Truthy(inp.owner)
               THEN Or(get_env("GITHUB_REPOSITORY_OWNER"), EMPTY)
               ELSE inp.owner,
     repo |-> IF ~Truthy(inp.repo) THEN extract_repo_from_repository
              ELSE inp.repo]

\* determine_dry_run_mode with the second check an if of its own, not an elif
determine_dry_run_mode_no_elif(inp) ==
    LET head_ref == Or(get_env("GITHUB_HEAD_REF"), EMPTY)
        base_ref == Or(get_env("GITHUB_BASE_REF"), EMPTY)
    IN  \/ Lower(inp.dry_run) = <<"true">> /\ head_ref = base_ref
        \/ Lower(inp.dry_run_on_non_default_branch) = <<"true">>
              /\ head_ref # base_ref

\* determine_dry_run_mode(inputs): the decision, from the two flags and the refs
determine_dry_run_mode(inp) ==
    LET head_ref == Or(get_env("GITHUB_HEAD_REF"), EMPTY)
        base_ref == Or(get_env("GITHUB_BASE_REF"), EMPTY)
    IN  IF Lower(inp.dry_run) = <<"true">>
        THEN head_ref = base_ref
        ELSE IF Lower(inp.dry_run_on_non_default_branch) = <<"true">>
        THEN head_ref # base_ref
        ELSE FALSE

\* the dry_run_arg output
dry_run_arg(d) == IF d THEN <<"--dry-run">> ELSE EMPTY

----------------------------------------------------------------------------
(* cog.toml and setup_cog_config.py *)

\* cog.toml: whether it exists, whether tomllib can parse it, the dict it parses
\* to, and how many times it has been written (any write changes rev).
NoFile == [exists |-> FALSE, parses |-> FALSE, doc |-> EmptyDict, rev |-> 0]

Malformed == [exists |-> TRUE, parses |-> FALSE, doc |-> EmptyDict, rev |-> 0]

TomlFile(doc) == [exists |-> TRUE, parses |-> TRUE, doc |-> doc, rev |-> 0]

\* tomli_w.dump(config, f) on the opened file
WriteToml(f, config) ==
    [exists |-> TRUE, parses |-> TRUE, doc |-> config, rev |-> f.rev + 1]

\* The guard without the test for a value already in the file
Missing_ignores_present(section, key, value) == value # NONE

\* The guard without the test for None
Missing_ignores_none(section, key, value) == key \notin DOMAIN section

\* The guard of each of the three assignments of setup_cog_config:
\* key not in changelog and value is not None
Missing(section, key, value) == key \notin DOMAIN section /\ value # NONE

\* The assignment made whenever a value is supplied
SetIfSupplied(section, key, value) ==
    IF value # NONE THEN DictSet(section, key, value) ELSE section

\* if <guard>: changelog[key] = value
SetIfMissing(section, key, value) ==
    IF Missing(section, key, value) THEN DictSet(section, key, value)
    ELSE section

\* setup_cog_config that takes a missing file for an empty one and creates it
setup_cog_config_missing_ok(f, remote_, repository_, owner_) ==
    IF f.exists /\ ~f.parses
    THEN [raised |-> <<"TOMLDecodeError">>, file |-> f, changes_made |-> FALSE]
    ELSE
    LET c0 == IF f.exists THEN DictGet(f.doc, "changelog", EmptyDict) ELSE EmptyDict
        c1 == SetIfSupplied(c0, "remote", remote_)
        c2 == SetIfSupplied(c1, "repository", repository_)
        c3 == SetIfSupplied(c2, "owner", owner_)
    IN  [raised |-> EMPTY,
         file |-> WriteToml(f, DictSet(f.doc, "changelog", c3)),
         changes_made |-> TRUE]

\* setup_cog_config(cog_toml_path, remote, repository, owner) on the file f:
\* the exception it raises (<<>> when it returns), the file afterwards and
\* the value returned.
setup_cog_config(f, remote_, repository_, owner_) ==
    IF ~f.exists
    THEN [raised |-> <<"FileNotFoundError">>, file |-> f, changes_made |-> FALSE]
    ELSE IF ~f.parses
    THEN [raised |-> <<"TOMLDecodeError">>, file |-> f, changes_made |-> FALSE]
    ELSE
    LET config == IF "changelog" \notin DOMAIN f.doc
                  THEN DictSet(f.doc, "changelog", EmptyDict)
                  ELSE f.doc
        c0 == config["changelog"]
        c1 == SetIfMissing(c0, "remote", remote_)
        c2 == SetIfMissing(c1, "repository", repository_)
        c3 == SetIfMissing(c2, "owner", owner_)
        changed == \/ Missing(c0, "remote", remote_)
                   \/ Missing(c1, "repository", repository_)
                   \/ Missing(c2, "owner", owner_)
    IN  [raised |-> EMPTY,
         file |-> IF changed
                  THEN WriteToml(f, DictSet(config, "changelog", c3))
                  ELSE f,
         changes_made |-> changed]

----------------------------------------------------------------------------
(* Subprocess calls *)

\* A list of one-token strs
Words(ts) == [i \in DOMAIN ts |-> <<ts[i]>>]

\* The record of one subprocess.run: the command line, the cwd argument
\* (NONE when not given) and the exit status it ended with.
Call(argv, cwd, rc) == [argv |-> argv, cwd |-> cwd, rc |-> rc]

ExitStatus == {0, 1}

GitAdd == Words(<<"git", "add", "cog.toml">>)

GitDiffCached == Words(<<"git", "diff", "--cached", "--quiet">>)

GitCommit ==
    Words(<<"git", "commit", "-m",
            "chore: update cog.toml with remote/owner/repo [skip ci]">>)

GitPush == Words(<<"git", "push", "origin", "HEAD">>)

\* The exit statuses git ends with in one run of setup_cog_configuration
GitOutcomes == [add : ExitStatus, diff : ExitStatus,
                commit : ExitStatus, push : ExitStatus]

\* The git calls with the commit attempted whatever git diff --cached reports
StageCommitPush_ignores_diff(git) ==
    IF git.add # 0
    THEN [calls |-> <<Call(GitAdd, NONE, git.add)>>, raised |-> TRUE,
          log |-> <<>>]
    ELSE IF git.commit # 0
    THEN [calls |-> <<Call(GitAdd, NONE, 0),
                      Call(GitDiffCached, NONE, git.diff),
                      Call(GitCommit, NONE, git.commit)>>,
          raised |-> FALSE,
          log |-> <<info("No changes to commit or push failed")>>]
    ELSE [calls |-> <<Call(GitAdd, NONE, 0),
                      Call(GitDiffCached, NONE, git.diff),
                      Call(GitCommit, NONE, 0),
                      Call(GitPush, NONE, git.push)>>,
          raised |-> FALSE,
          log |-> IF git.push # 0
                  THEN <<info("No changes to commit or push failed")>>
                  ELSE <<info("Committed and pushed cog.toml changes")>>]

\* The git calls of setup_cog_configuration once changes were written, and
\* whether git add (check=True) raised CalledProcessError out of them.
StageCommitPush(git) ==
    IF git.add # 0
    THEN [calls |-> <<Call(GitAdd, NONE, git.add)>>, raised |-> TRUE,
          log |-> <<>>]
    ELSE IF git.diff = 0
    THEN [calls |-> <<Call(GitAdd, NONE, 0), Call(GitDiffCached, NONE, 0)>>,
          raised |-> FALSE,
          log |-> <<info("No changes to cog.toml")>>]
    ELSE IF git.commit # 0
    THEN [calls |-> <<Call(GitAdd, NONE, 0),
                      Call(GitDiffCached, NONE, git.diff),
                      Call(GitCommit, NONE, git.commit)>>,
          raised |-> FALSE,
          log |-> <<info("No changes to commit or push failed")>>]
    ELSE [calls |-> <<Call(GitAdd, NONE, 0),
                      Call(GitDiffCached, NONE, git.diff),
                      Call(GitCommit, NONE, 0),
                      Call(GitPush, NONE, git.push)>>,
          raised |-> FALSE,
          log |-> IF git.push # 0
                  THEN <<info("No changes to commit or push failed")>>
                  ELSE <<info("Committed and pushed cog.toml changes")>>]

\* setup_cog_configuration(inputs, remote, owner, repo) on the file f with the
\* environment e: whether the step ran, the ReleaseWithCogError it raised
\* (<<>> when it returned), the file, the environment, changes_made and the git
\* calls and the lines logged afterwards.
setup_cog_configuration(inp, remote_, owner_, repo_, f, e, git) ==
    IF Lower(inp.update_cog_toml) # <<"true">>
    THEN [ran |-> FALSE, raised |-> EMPTY, file |-> f, env |-> e,
          changes_made |-> FALSE, calls |-> <<>>, log |-> <<>>]
    ELSE
    LET e1 == [e EXCEPT !["COG_REMOTE"] = remote_,
                        !["COG_OWNER"] = owner_,
                        !["COG_REPOSITORY"] = repo_]
        r == setup_cog_config(f, remote_, repo_, owner_)
        g == StageCommitPush(git)
    IN  IF r.raised # EMPTY
        THEN [ran |-> TRUE, raised |-> <<"ReleaseWithCogError">> \o r.raised,
              file |-> r.file, env |-> e1, changes_made |-> FALSE,
              calls |-> <<>>,
              log |-> <<error("Failed to setup cog configuration")>>]
        ELSE IF ~r.changes_made
        THEN [ran |-> TRUE, raised |-> EMPTY, file |-> r.file, env |-> e1,
              changes_made |-> FALSE, calls |-> <<>>,
              log |-> <<info("All changelog configuration values already exist in cog.toml")>>]
        ELSE [ran |-> TRUE,
              raised |-> IF g.raised
                         THEN <<"ReleaseWithCogError", "CalledProcessError">>
                         ELSE EMPTY,
              file |-> r.file, env |-> e1, changes_made |-> TRUE,
              calls |-> g.calls,
              log |-> <<info("Added missing changelog configuration values to cog.toml")>>
                      \o g.log
                      \o (IF g.raised
                          THEN <<error("Failed to setup cog configuration")>>
                          ELSE <<>>)]

----------------------------------------------------------------------------
(* The cog calls *)

\* The directories of the checkout
ExistingDirs == {<<".">>}

\* Whether subprocess.run(["cog", ...], cwd=working_dir) gets a process
\* started: the executable is on PATH and the directory exists.  When it does
\* not, subprocess.run raises FileNotFoundError and no process runs.
CogStarts(on_path, working_dir) == on_path /\ working_dir \in ExistingDirs

\* Whether an except clause for the exception type catches exc
Catches(type, exc) == exc # EMPTY /\ exc[1] = type

\* run_cog_command(args, working_dir) when cog, once started, ends with status
\* rc and prints stdout: the exception raised (ReleaseWithCogError for a
\* non-zero status, the FileNotFoundError of subprocess.run left as it is),
\* the value returned otherwise, and the call made.
run_cog_command(args, working_dir, on_path, rc, stdout) ==
    IF ~CogStarts(on_path, working_dir)
    THEN [raised |-> <<"FileNotFoundError">>, value |-> EMPTY, calls |-> <<>>,
          log |-> <<>>]
    ELSE [raised |-> IF rc # 0
                     THEN <<"ReleaseWithCogError", "CalledProcessError">>
                     ELSE EMPTY,
          value |-> Strip(stdout),
          calls |-> <<Call(<<<<"cog">>>> \o args, working_dir, rc)>>,
          log |-> IF rc # 0 THEN <<error("Cog command failed"), error("Error")>>
                  ELSE <<>>]

\* get_cog_version(working_dir): "" when run_cog_command raised
\* ReleaseWithCogError; any other exception is not caught
get_cog_version(working_dir, on_path, rc, stdout) ==
    LET r == run_cog_command(Words(<<"get-version">>), working_dir, on_path,
                             rc, stdout)
    IN  [raised |-> IF Catches("ReleaseWithCogError", r.raised)
                    THEN EMPTY ELSE r.raised,
         value |-> IF r.raised # EMPTY THEN EMPTY ELSE r.value,
         calls |-> r.calls, log |-> r.log]

\* The command line of the bump without the dry-run token
BumpArgs_never_dry(inp, dry) ==
    Words(<<"bump">>)
    \o (IF Strip(inp.cog_bump_args) # EMPTY
        THEN Split(Strip(inp.cog_bump_args)) ELSE <<>>)
    \o Words(<<"--auto", "--skip-ci">>)

\* The command line bump_version builds
BumpArgs(inp, dry) ==
    Words(<<"bump">>)
    \o (IF Strip(inp.cog_bump_args) # EMPTY
        THEN Split(Strip(inp.cog_bump_args)) ELSE <<>>)
    \o (IF dry THEN Words(<<"--dry-run">>) ELSE <<>>)
    \o Words(<<"--auto", "--skip-ci">>)

\* bump_version(inputs, working_dir, dry_run=dry) when cog bump ends with status
\* rc and the two diagnostic git calls with diag.status and diag.diff; the
\* FileNotFoundError of a cog that does not start is caught with the other
\* exceptions and gives False.
bump_version(inp, working_dir, dry, on_path, rc, diag) ==
    IF ~CogStarts(on_path, working_dir)
    THEN [value |-> FALSE, calls |-> <<>>]
    ELSE [value |-> rc = 0,
          calls |-> <<Call(<<<<"cog">>>> \o BumpArgs(inp, dry), working_dir, rc),
                      Call(Words(<<"git", "status">>), working_dir, diag.status),
                      Call(Words(<<"git", "diff">>), working_dir, diag.diff)>>]

\* get_tag_prefix(): tag_prefix of cog.toml, "" when the file cannot be read
get_tag_prefix(f) ==
    IF ~f.exists \/ ~f.parses THEN EMPTY
    ELSE DictGet(f.doc, "tag_prefix", EMPTY)

\* The command line of the changelog with the coordinate flags added as soon
\* as one of the coordinates is there
ChangelogArgs_partial_coordinates(inp, remote_, owner_, repo_, version, f) ==
    Words(<<"changelog">>)
    \o (IF Strip(inp.cog_changelog_args) # EMPTY
        THEN Split(Strip(inp.cog_changelog_args)) ELSE <<>>)
    \o (IF Truthy(remote_) \/ Truthy(owner_) \/ Truthy(repo_)
        THEN <<<<"--remote">>, remote_, <<"--owner">>, owner_,
               <<"--repository">>, repo_>>
        ELSE <<>>)
    \o (IF Truthy(version)
        THEN <<<<"--at">>, get_tag_prefix(f) \o version>>
        ELSE <<>>)

\* The command line generate_changelog builds
ChangelogArgs(inp, remote_, owner_, repo_, version, f) ==
    Words(<<"changelog">>)
    \o (IF Strip(inp.cog_changelog_args) # EMPTY
        THEN Split(Strip(inp.cog_changelog_args)) ELSE <<>>)
    \o (IF Truthy(remote_) /\ Truthy(owner_) /\ Truthy(repo_)
        THEN <<<<"--remote">>, remote_, <<"--owner">>, owner_,
               <<"--repository">>, repo_>>
        ELSE <<>>)
    \o (IF Truthy(version)
        THEN <<<<"--at">>, get_tag_prefix(f) \o version>>
        ELSE <<>>)

\* generate_changelog that returns what the tool printed even when it failed
generate_changelog_ignores_failure(inp, remote_, owner_, repo_, version, f, on_path, rc, stdout) ==
    LET r == run_cog_command(ChangelogArgs(inp, remote_, owner_, repo_, version, f),
                             <<".">>, on_path, rc, stdout)
    IN  [raised |-> IF Catches("ReleaseWithCogError", r.raised)
                    THEN EMPTY ELSE r.raised,
         value |-> r.value, calls |-> r.calls, log |-> r.log]

\* generate_changelog(inputs, remote, owner, repo, version): "" when
\* run_cog_command raised ReleaseWithCogError; any other exception is not
\* caught
generate_changelog(inp, remote_, owner_, repo_, version, f, on_path, rc, stdout) ==
    LET r == run_cog_command(ChangelogArgs(inp, remote_, owner_, repo_, version, f),
                             <<".">>, on_path, rc, stdout)
    IN  [raised |-> IF Catches("ReleaseWithCogError", r.raised)
                    THEN EMPTY ELSE r.raised,
         value |-> IF r.raised # EMPTY THEN EMPTY ELSE r.value,
         calls |-> r.calls,
         log |-> IF Catches("ReleaseWithCogError", r.raised)
                 THEN r.log \o <<error("Failed to generate changelog")>>
                 ELSE r.log]

----------------------------------------------------------------------------
(* The Release Publisher *)

\* getattr(response, name, default)
GetAttr(response, name, default) == DictGet(response, name, default)

\* The server URL with a scheme
WithScheme(server_url) ==
    IF ~StartsWithScheme(server_url) THEN <<"https", "://">> \o server_url
    ELSE server_url

\* f"{server_url}/{owner}/{repo}/releases/tag/{version}"
ReleaseUrl(server_url, owner_, repo_, version) ==
    server_url \o <<"/">> \o owner_ \o <<"/">> \o repo_
               \o <<"/releases/tag/">> \o version

\* The create-release call of the forge client: the client's settings, the
\* arguments of the call, whether it raised and the response it returned
Request(base_url, api_key, owner_, repo_, version, body, api) ==
    [base_url |-> base_url, api_key |-> api_key, owner |-> owner_,
     repo |-> repo_, tag_name |-> version, name |-> version, body |-> body,
     raised |-> api.raises, response |-> api.response]

\* create_forgejo_release that builds the record whether or not the call raised
create_forgejo_release_ignores_raise(version, changelog_, owner_, repo_, e, api) ==
    LET token == e["FORGEJO_TOKEN"]
        server_url == Or(e["FORGEJO_SERVER_URL"], e["GITHUB_SERVER_URL"])
        base_url == WithScheme(server_url)
        release_dict ==
            [tag_name |-> version,
             name |-> version,
             body |-> changelog_,
             html_url |-> GetAttr(api.response, "html_url",
                                  ReleaseUrl(base_url, owner_, repo_, version)),
             id |-> GetAttr(api.response, "id", NONE)]
    IN  IF ~Truthy(version)
        THEN [value |-> NONE, requests |-> <<>>, log |-> <<>>]
        ELSE IF ~Truthy(token)
        THEN [value |-> NONE, requests |-> <<>>,
              log |-> <<error("FORGEJO_TOKEN environment variable not set")>>]
        ELSE IF ~Truthy(server_url)
        THEN [value |-> NONE, requests |-> <<>>,
              log |-> <<error("FORGEJO_SERVER_URL or GITHUB_SERVER_URL environment variable not set")>>]
        ELSE [value |-> JsonDumps(release_dict),
              requests |-> <<Request(base_url, token, owner_, repo_,
                                     version, changelog_, api)>>,
              log |-> <<>>]

\* create_forgejo_release without the check for a token
create_forgejo_release_no_token_check(version, changelog_, owner_, repo_, e, api) ==
    LET token == e["FORGEJO_TOKEN"]
        server_url == Or(e["FORGEJO_SERVER_URL"], e["GITHUB_SERVER_URL"])
        base_url == WithScheme(server_url)
        release_dict ==
            [tag_name |-> version,
             name |-> version,
             body |-> changelog_,
             html_url |-> GetAttr(api.response, "html_url",
                                  ReleaseUrl(base_url, owner_, repo_, version)),
             id |-> GetAttr(api.response, "id", NONE)]
    IN  IF ~Truthy(version)
        THEN [value |-> NONE, requests |-> <<>>, log |-> <<>>]
        ELSE IF ~Truthy(server_url)
        THEN [value |-> NONE, requests |-> <<>>,
              log |-> <<error("FORGEJO_SERVER_URL or GITHUB_SERVER_URL environment variable not set")>>]
        ELSE [value |-> IF api.raises THEN NONE ELSE JsonDumps(release_dict),
              requests |-> <<Request(base_url, token, owner_, repo_,
                                     version, changelog_, api)>>,
              log |-> IF api.raises
                      THEN <<error("Failed to create Forgejo release")>>
                      ELSE <<>>]

\* create_forgejo_release(version, changelog, owner, repo) in the environment e,
\* when the create-release call ends as api says: the value returned, the
\* requests sent and the lines logged.
create_forgejo_release(version, changelog_, owner_, repo_, e, api) ==
    LET token == e["FORGEJO_TOKEN"]
        server_url == Or(e["FORGEJO_SERVER_URL"], e["GITHUB_SERVER_URL"])
        base_url == WithScheme(server_url)
        release_dict ==
            [tag_name |-> version,
             name |-> version,
             body |-> changelog_,
             html_url |-> GetAttr(api.response, "html_url",
                                  ReleaseUrl(base_url, owner_, repo_, version)),
             id |-> GetAttr(api.response, "id", NONE)]
    IN  IF ~Truthy(version)
        THEN [value |-> NONE, requests |-> <<>>, log |-> <<>>]
        ELSE IF ~Truthy(token)
        THEN [value |-> NONE, requests |-> <<>>,
              log |-> <<error("FORGEJO_TOKEN environment variable not set")>>]
        ELSE IF ~Truthy(server_url)
        THEN [value |-> NONE, requests |-> <<>>,
              log |-> <<error("FORGEJO_SERVER_URL or GITHUB_SERVER_URL environment variable not set")>>]
        ELSE [value |-> IF api.raises THEN NONE ELSE JsonDumps(release_dict),
              requests |-> <<Request(base_url, token, owner_, repo_,
                                     version, changelog_, api)>>,
              log |-> IF api.raises
                      THEN <<error("Failed to create Forgejo release")>>
                      ELSE <<>>]

----------------------------------------------------------------------------
(* The inputs, environments, files and tool outcomes explored *)

GitServerUrl == <<"https", "://", "git.example.com">>

ForgeServerUrl == <<"forge.example.com">>

NoUserInput ==
    [working_directory |-> NONE, dry_run |-> NONE,
     dry_run_on_non_default_branch |-> NONE, cog_bump_args |-> NONE,
     cog_changelog_args |-> NONE, remote |-> NONE, owner |-> NONE,
     repo |-> NONE, create_forgejo_release |-> NONE, update_cog_toml |-> NONE]

NoEnv ==
    [GITHUB_SERVER_URL |-> NONE, GITHUB_REPOSITORY |-> NONE,
     GITHUB_REPOSITORY_OWNER |-> NONE, GITHUB_HEAD_REF |-> NONE,
     GITHUB_BASE_REF |-> NONE, FORGEJO_TOKEN |-> NONE,
     FORGEJO_SERVER_URL |-> NONE, COG_REMOTE |-> NONE,
     COG_REPOSITORY |-> NONE, COG_OWNER |-> NONE]

\* The forge's variables of a runner, and none of them outside one
RunnerEnvs ==
    {NoEnv,
     [NoEnv EXCEPT !.GITHUB_SERVER_URL = GitServerUrl,
                   !.GITHUB_REPOSITORY = <<"acme", "/", "proj">>,
                   !.GITHUB_REPOSITORY_OWNER = <<"acme">>]}

\* A push to the default branch sets neither ref; a pull request sets both
WithRefs(e) ==
    {e, [e EXCEPT !.GITHUB_HEAD_REF = <<"feat">>, !.GITHUB_BASE_REF = <<"main">>]}

WithForge(e) ==
    {e,
     [e EXCEPT !.FORGEJO_TOKEN = <<"tok">>],
     [e EXCEPT !.FORGEJO_TOKEN = <<"tok">>, !.FORGEJO_SERVER_URL = ForgeServerUrl]}

MainEnvs == UNION {UNION {WithForge(e2) : e2 \in WithRefs(e1)} : e1 \in RunnerEnvs}

MainUserInputs ==
    {[NoUserInput EXCEPT !.dry_run = d, !.remote = c[1], !.owner = c[2],
                         !.repo = c[3], !.create_forgejo_release = cr,
                         !.update_cog_toml = up] :
        d \in {NONE, <<"True">>},
        c \in {<<NONE, NONE, NONE>>, <<<<"codeberg.org">>, EMPTY, <<"site">>>>},
        cr \in {NONE, <<"false">>},
        up \in {NONE, <<"False">>}}
    \cup {[NoUserInput EXCEPT !.dry_run = <<"True">>,
                              !.cog_bump_args = <<" ", "--pre", " ", "rc", "\n">>,
                              !.cog_changelog_args = <<"--template", " ", "full_hash">>],
          [NoUserInput EXCEPT !.cog_bump_args = <<"--dry-run">>],
          [NoUserInput EXCEPT !.cog_changelog_args = <<"--at", " ", "v0.9.0">>],
          [NoUserInput EXCEPT !.working_directory = <<"missing">>]}

OtherKeys == [path |-> <<"CHANGELOG.md">>, template |-> <<"remote">>]

Existing ==
    [path |-> <<"CHANGELOG.md">>, template |-> <<"remote">>,
     remote |-> <<"existing-remote">>, repository |-> <<"existing-repo">>,
     owner |-> <<"existing-owner">>]

MainFiles ==
    {NoFile, Malformed, TomlFile(EmptyDict),
     TomlFile([tag_prefix |-> <<"v">>, changelog |-> OtherKeys]),
     TomlFile([changelog |-> Existing])}

\* What cog get-version prints before and after the bump
PreviousStdout == {<<"1.0.0", "\n">>}

CurrentStdout == {<<"1.0.0", "\n">>, <<"1.1.0", "\n">>}

ChangelogStdout == {<<"## 1.1.0", "\n", "- feat: x", "\n">>}

DiagOutcomes == {[status |-> 0, diff |-> 0], [status |-> 1, diff |-> 1]}

\* How the create-release call ends: it raises, or it returns a response with
\* both attributes set, with both attributes None, or with neither attribute.
ApiUrl == <<"https", "://", "forge.example.com", "/acme/proj/releases/1">>

ApiOutcomes ==
    {[raises |-> TRUE, response |-> EmptyDict],
     [raises |-> FALSE, response |-> [html_url |-> ApiUrl, id |-> <<"7">>]],
     [raises |-> FALSE, response |-> [html_url |-> NONE, id |-> NONE]],
     [raises |-> FALSE, response |-> EmptyDict]}

----------------------------------------------------------------------------
(* main() of release_with_cog.py, one action per statement *)

NoInputs == NoUserInput

\* The state of a process that has not run anything yet
Fresh ==
    /\ inputs = NoInputs
    /\ remote = NONE
    /\ owner = NONE
    /\ repo = NONE
    /\ dry_run = FALSE
    /\ changes_made = FALSE
    /\ previous_version = NONE
    /\ bump_result = FALSE
    /\ current_version = NONE
    /\ changelog = NONE
    /\ release_response = NONE
    /\ outputs = EmptyDict
    /\ calls = <<>>
    /\ api_calls = <<>>
    /\ stages = <<>>
    /\ log = <<>>
    /\ raised = EMPTY
    /\ exit_code = EMPTY

Init ==
    /\ pc = "get_action_inputs"
    /\ user_input \in MainUserInputs
    /\ env \in MainEnvs
    /\ file \in MainFiles
    /\ file_at_start = file
    /\ cog_on_path \in BOOLEAN
    /\ runs = 1
    /\ Fresh

\* inputs = get_action_inputs()
GetActionInputs ==
    /\ pc = "get_action_inputs"
    /\ inputs' = get_action_inputs
    /\ stages' = Append(stages, "get_action_inputs")
    /\ pc' = "set_default_values"
    /\ UNCHANGED <<user_input, env, file, remote, owner, repo, dry_run,
                   changes_made, previous_version, bump_result, current_version,
                   changelog, release_response, outputs, calls, api_calls,
                   log, raised, exit_code, runs, file_at_start,
                   cog_on_path>>

\* remote, owner, repo = set_default_values(inputs=inputs)
SetDefaultValues ==
    /\ pc = "set_default_values"
    /\ LET r == set_default_values(inputs)
       IN  /\ remote' = r.remote
           /\ owner' = r.owner
           /\ repo' = r.repo
           /\ outputs' = set_output(set_output(set_output(outputs,
                             "remote", r.remote), "owner", r.owner), "repo", r.repo)
    /\ stages' = Append(stages, "set_default_values")
    /\ pc' = "determine_dry_run_mode"
    /\ UNCHANGED <<user_input, env, file, inputs, dry_run, changes_made,
                   previous_version, bump_result, current_version, changelog,
                   release_response, calls, api_calls, log, raised, exit_code,
                   runs, file_at_start,
                   cog_on_path>>

\* dry_run = determine_dry_run_mode(inputs=inputs)
DetermineDryRunMode ==
    /\ pc = "determine_dry_run_mode"
    /\ dry_run' = determine_dry_run_mode(inputs)
    /\ outputs' = set_output(outputs, "dry_run_arg", dry_run_arg(dry_run'))
    /\ stages' = Append(stages, "determine_dry_run_mode")
    /\ pc' = "setup_cog_configuration"
    /\ UNCHANGED <<user_input, env, file, inputs, remote, owner, repo,
                   changes_made, previous_version, bump_result, current_version,
                   changelog, release_response, calls, api_calls, log, raised,
                   exit_code, runs, file_at_start,
                   cog_on_path>>

\* The Config Synchronizer step held back in a dry run: nothing written, no git
\* call
SetupCogConfiguration_not_in_dry_run ==
    /\ pc = "setup_cog_configuration"
    /\ \E git \in GitOutcomes :
         LET r == IF dry_run
                  THEN [raised |-> EMPTY, file |-> file, env |-> env,
                        changes_made |-> FALSE, calls |-> <<>>, log |-> <<>>]
                  ELSE setup_cog_configuration(inputs, remote, owner, repo,
                                               file, env, git)
         IN  /\ file' = r.file
             /\ env' = r.env
             /\ changes_made' = r.changes_made
             /\ calls' = calls \o r.calls
             /\ raised' = r.raised
             /\ IF r.raised # EMPTY
                THEN /\ pc' = "exited"
                     /\ exit_code' = <<1>>
                     /\ log' = log \o r.log \o <<error("Release process failed")>>
                ELSE /\ pc' = "get_previous_version"
                     /\ exit_code' = exit_code
                     /\ log' = log \o r.log
    /\ stages' = Append(stages, "setup_cog_configuration")
    /\ UNCHANGED <<user_input, inputs, remote, owner, repo, dry_run,
                   previous_version, bump_result, current_version, changelog,
                   release_response, outputs, api_calls, runs, file_at_start,
                   cog_on_path>>

\* The Config Synchronizer step moved behind the changelog: passed over in its
\* place, and run once the changelog has been generated
SetupCogConfiguration_after_changelog ==
    \/ /\ pc = "setup_cog_configuration"
       /\ pc' = "get_previous_version"
       /\ UNCHANGED <<user_input, env, file, inputs, remote, owner, repo,
                      dry_run, changes_made, previous_version, bump_result,
                      current_version, changelog, release_response, outputs,
                      calls, api_calls, stages, log, raised, exit_code, runs,
                      file_at_start,
                      cog_on_path>>
    \/ /\ pc = "create_forgejo_release"
       /\ \A i \in DOMAIN stages : stages[i] # "setup_cog_configuration"
       /\ \E git \in GitOutcomes :
            LET r == setup_cog_configuration(inputs, remote, owner, repo,
                                             file, env, git)
            IN  /\ file' = r.file
                /\ env' = r.env
                /\ changes_made' = r.changes_made
                /\ calls' = calls \o r.calls
                /\ raised' = r.raised
                /\ log' = log \o r.log
                /\ IF r.raised # EMPTY
                   THEN pc' = "exited" /\ exit_code' = <<1>>
                   ELSE pc' = pc /\ exit_code' = exit_code
       /\ stages' = Append(stages, "setup_cog_configuration")
       /\ UNCHANGED <<user_input, inputs, remote, owner, repo, dry_run,
                      previous_version, bump_result, current_version, changelog,
                      release_response, outputs, api_calls, runs, file_at_start,
                      cog_on_path>>

\* setup_cog_configuration(inputs=inputs, remote=remote, owner=owner, repo=repo);
\* a ReleaseWithCogError it raises ends main() with sys.exit(1)
SetupCogConfiguration ==
    /\ pc = "setup_cog_configuration"
    /\ \E git \in GitOutcomes :
         LET r == setup_cog_configuration(inputs, remote, owner, repo,
                                          file, env, git)
         IN  /\ file' = r.file
             /\ env' = r.env
             /\ changes_made' = r.changes_made
             /\ calls' = calls \o r.calls
             /\ raised' = r.raised
             /\ IF r.raised # EMPTY
                THEN /\ pc' = "exited"
                     /\ exit_code' = <<1>>
                     /\ log' = log \o r.log \o <<error("Release process failed")>>
                ELSE /\ pc' = "get_previous_version"
                     /\ exit_code' = exit_code
                     /\ log' = log \o r.log
    /\ stages' = Append(stages, "setup_cog_configuration")
    /\ UNCHANGED <<user_input, inputs, remote, owner, repo, dry_run,
                   previous_version, bump_result, current_version, changelog,
                   release_response, outputs, api_calls, runs, file_at_start,
                   cog_on_path>>

\* previous_version = get_cog_version(working_dir=working_dir); an exception
\* it lets through is not caught by main() either and ends the process with
\* a traceback and status 1
GetPreviousVersion ==
    /\ pc = "get_previous_version"
    /\ \E rc \in ExitStatus, stdout \in PreviousStdout :
         LET r == get_cog_version(inputs.working_directory, cog_on_path, rc,
                                  stdout)
         IN  /\ calls' = calls \o r.calls
             /\ log' = log \o r.log
             /\ raised' = r.raised
             /\ IF r.raised # EMPTY
                THEN /\ pc' = "exited"
                     /\ exit_code' = <<1>>
                     /\ UNCHANGED <<previous_version, outputs>>
                ELSE /\ pc' = "bump_version"
                     /\ exit_code' = exit_code
                     /\ previous_version' = r.value
                     /\ outputs' = set_output(outputs, "previous_version", r.value)
    /\ stages' = Append(stages, "get_cog_version")
    /\ UNCHANGED <<user_input, env, file, inputs, remote, owner, repo, dry_run,
                   changes_made, bump_result, current_version, changelog,
                   release_response, api_calls, runs, file_at_start,
                   cog_on_path>>

\* The bump step run strictly: a non-zero exit status of cog bump ends the run
BumpVersion_strict ==
    /\ pc = "bump_version"
    /\ \E rc \in ExitStatus, diag \in DiagOutcomes :
         LET r == bump_version(inputs, inputs.working_directory, dry_run,
                               cog_on_path, rc, diag)
         IN  /\ bump_result' = r.value
             /\ calls' = calls \o r.calls
             /\ IF rc # 0
                THEN /\ pc' = "exited"
                     /\ exit_code' = <<1>>
                     /\ raised' = <<"ReleaseWithCogError", "CalledProcessError">>
                ELSE /\ pc' = "get_current_version"
                     /\ UNCHANGED <<exit_code, raised>>
    /\ stages' = Append(stages, "bump_version")
    /\ UNCHANGED <<user_input, env, file, inputs, remote, owner, repo, dry_run,
                   changes_made, previous_version, current_version, changelog,
                   release_response, outputs, api_calls, log, runs,
                   file_at_start,
                   cog_on_path>>

\* bump_version(inputs=inputs, dry_run=dry_run, working_dir=working_dir)
BumpVersion ==
    /\ pc = "bump_version"
    /\ \E rc \in ExitStatus, diag \in DiagOutcomes :
         LET r == bump_version(inputs, inputs.working_directory, dry_run,
                               cog_on_path, rc, diag)
         IN  /\ bump_result' = r.value
             /\ calls' = calls \o r.calls
    /\ stages' = Append(stages, "bump_version")
    /\ pc' = "get_current_version"
    /\ UNCHANGED <<user_input, env, file, inputs, remote, owner, repo, dry_run,
                   changes_made, previous_version, current_version, changelog,
                   release_response, outputs, api_calls, log, raised,
                   exit_code, runs, file_at_start,
                   cog_on_path>>

\* current_version = get_cog_version(working_dir)
GetCurrentVersion ==
    /\ pc = "get_current_version"
    /\ \E rc \in ExitStatus, stdout \in CurrentStdout :
         LET r == get_cog_version(inputs.working_directory, cog_on_path, rc,
                                  stdout)
         IN  /\ calls' = calls \o r.calls
             /\ log' = log \o r.log
             /\ raised' = r.raised
             /\ IF r.raised # EMPTY
                THEN /\ pc' = "exited"
                     /\ exit_code' = <<1>>
                     /\ UNCHANGED <<current_version, outputs>>
                ELSE /\ pc' = "generate_changelog"
                     /\ exit_code' = exit_code
                     /\ current_version' = r.value
                     /\ outputs' = set_output(outputs, "current_version", r.value)
    /\ stages' = Append(stages, "get_cog_version")
    /\ UNCHANGED <<user_input, env, file, inputs, remote, owner, repo, dry_run,
                   changes_made, previous_version, bump_result, changelog,
                   release_response, api_calls, runs, file_at_start,
                   cog_on_path>>

\* The changelog step generating the changelog of the version queried before
\* the bump
GenerateChangelog_of_previous ==
    /\ pc = "generate_changelog"
    /\ \E rc \in ExitStatus, stdout \in ChangelogStdout :
         LET r == generate_changelog(inputs, remote, owner, repo,
                                     previous_version, file, cog_on_path, rc,
                                     stdout)
         IN  /\ calls' = calls \o r.calls
             /\ log' = log \o r.log
             /\ raised' = r.raised
             /\ IF r.raised # EMPTY
                THEN /\ pc' = "exited"
                     /\ exit_code' = <<1>>
                     /\ UNCHANGED <<changelog, outputs>>
                ELSE /\ pc' = "create_forgejo_release"
                     /\ exit_code' = exit_code
                     /\ changelog' = r.value
                     /\ outputs' = set_output(outputs, "changelog", r.value)
    /\ stages' = Append(stages, "generate_changelog")
    /\ UNCHANGED <<user_input, env, file, inputs, remote, owner, repo, dry_run,
                   changes_made, previous_version, bump_result, current_version,
                   release_response, api_calls, runs, file_at_start,
                   cog_on_path>>

\* changelog = generate_changelog(inputs, remote, owner, repo, current_version)
GenerateChangelog ==
    /\ pc = "generate_changelog"
    /\ \E rc \in ExitStatus, stdout \in ChangelogStdout :
         LET r == generate_changelog(inputs, remote, owner, repo,
                                     current_version, file, cog_on_path, rc,
                                     stdout)
         IN  /\ calls' = calls \o r.calls
             /\ log' = log \o r.log
             /\ raised' = r.raised
             /\ IF r.raised # EMPTY
                THEN /\ pc' = "exited"
                     /\ exit_code' = <<1>>
                     /\ UNCHANGED <<changelog, outputs>>
                ELSE /\ pc' = "create_forgejo_release"
                     /\ exit_code' = exit_code
                     /\ changelog' = r.value
                     /\ outputs' = set_output(outputs, "changelog", r.value)
    /\ stages' = Append(stages, "generate_changelog")
    /\ UNCHANGED <<user_input, env, file, inputs, remote, owner, repo, dry_run,
                   changes_made, previous_version, bump_result, current_version,
                   release_response, api_calls, runs, file_at_start,
                   cog_on_path>>

\* The condition under which main() calls create_forgejo_release
ReleaseRequested(inp, version) ==
    Lower(inp.create_forgejo_release) = <<"true">> /\ Truthy(version)

\* The last block of main(): the release when requested, then normal completion
CreateForgejoRelease ==
    /\ pc = "create_forgejo_release"
    /\ IF ReleaseRequested(inputs, current_version)
       THEN \E api \in ApiOutcomes :
              LET r == create_forgejo_release(current_version, changelog,
                                              owner, repo, env, api)
              IN  /\ release_response' = r.value
                  /\ api_calls' = api_calls \o r.requests
                  /\ outputs' = IF Truthy(r.value)
                                THEN set_output(outputs, "forgejo_release_output",
                                                JsonDumpsStr(r.value))
                                ELSE outputs
                  /\ log' = log \o r.log
                  /\ stages' = Append(stages, "create_forgejo_release")
       ELSE UNCHANGED <<release_response, api_calls, outputs, stages, log>>
    /\ pc' = "exited"
    /\ exit_code' = <<0>>
    /\ UNCHANGED <<user_input, env, file, inputs, remote, owner, repo, dry_run,
                   changes_made, previous_version, bump_result, current_version,
                   changelog, calls, raised, runs, file_at_start,
                   cog_on_path>>

Next ==
    \/ GetActionInputs
    \/ SetDefaultValues
    \/ DetermineDryRunMode
    \/ SetupCogConfiguration
    \/ GetPreviousVersion
    \/ BumpVersion
    \/ GetCurrentVersion
    \/ GenerateChangelog
    \/ CreateForgejoRelease

Spec == Init /\ [][Next]_vars

----------------------------------------------------------------------------
(* The Dry-Run Decider on its own: main() up to the decision, over every    *)
(* spelling of the two flags and every pair of refs.                        *)

DeciderUserInputs ==
    {[NoUserInput EXCEPT !.dry_run = d, !.dry_run_on_non_default_branch = n] :
        d \in {NONE, EMPTY, <<"true">>, <<"True">>, <<"false">>, <<"yes">>},
        n \in {NONE, <<"true">>, <<"TRUE">>, <<"false">>, <<"False">>}}

DeciderEnvs ==
    {[NoEnv EXCEPT !.GITHUB_HEAD_REF = h, !.GITHUB_BASE_REF = b] :
        h \in {NONE, EMPTY, <<"main">>, <<"feat">>},
        b \in {NONE, <<"main">>}}

InitDecider ==
    /\ pc = "get_action_inputs"
    /\ user_input \in DeciderUserInputs
    /\ env \in DeciderEnvs
    /\ file = NoFile
    /\ file_at_start = file
    /\ cog_on_path = TRUE
    /\ runs = 1
    /\ Fresh

NextDecider ==
    \/ GetActionInputs
    \/ SetDefaultValues
    \/ DetermineDryRunMode

SpecDecider == InitDecider /\ [][NextDecider]_vars

----------------------------------------------------------------------------
(* The Config Synchronizer on its own, run up to MaxRuns times in a row on   *)
(* the same cog.toml: as the step of main() (the action run again with the   *)
(* same inputs; the steps after the synchronizer do not touch cog.toml and   *)
(* are left out), and as the script setup_cog_config.py, which takes the     *)
(* three values from COG_REMOTE, COG_REPOSITORY and COG_OWNER.               *)

Fields == {"remote", "repository", "owner"}

\* The dict d without the keys outside ks
Restrict(d, ks) == [k \in DOMAIN d \cap ks |-> d[k]]

SyncFiles ==
    {NoFile, Malformed, TomlFile(EmptyDict), TomlFile([tag_prefix |-> <<"v">>])}
    \cup {TomlFile([changelog |-> Restrict(Existing, ks \cup extra)]) :
            ks \in SUBSET Fields, extra \in {{}, {"path", "template"}}}

SyncUserInputs ==
    {[NoUserInput EXCEPT !.remote = r, !.owner = o, !.repo = p,
                         !.update_cog_toml = up] :
        r \in {NONE, <<"codeberg.org">>},
        o \in {NONE, <<"acme">>},
        p \in {NONE, <<"site">>},
        up \in {NONE, <<"False">>}}

ScriptEnvs ==
    {[NoEnv EXCEPT !.COG_REMOTE = r, !.COG_REPOSITORY = p, !.COG_OWNER = o] :
        r \in {NONE, EMPTY, <<"test-remote">>},
        p \in {NONE, <<"test-repo">>},
        o \in {NONE, <<"test-owner">>}}

InitSync ==
    /\ \/ pc = "get_action_inputs" /\ user_input \in SyncUserInputs /\ env = NoEnv
       \/ pc = "script_main" /\ user_input = NoUserInput /\ env \in ScriptEnvs
    /\ file \in SyncFiles
    /\ file_at_start = file
    /\ cog_on_path = TRUE
    /\ runs = 1
    /\ Fresh

\* main() of setup_cog_config.py without the "test" argument; an exception of
\* setup_cog_config is not caught and ends the script with status 1
SetupCogConfigScript ==
    /\ pc = "script_main"
    /\ LET r == setup_cog_config(file, env["COG_REMOTE"], env["COG_REPOSITORY"],
                                 env["COG_OWNER"])
       IN  /\ file' = r.file
           /\ changes_made' = r.changes_made
           /\ raised' = r.raised
           /\ exit_code' = IF r.raised # EMPTY THEN <<1>> ELSE <<0>>
    /\ stages' = Append(stages, "setup_cog_config")
    /\ pc' = "script_exited"
    /\ UNCHANGED <<log, user_input, env, inputs, remote, owner, repo, dry_run,
                   previous_version, bump_result, current_version, changelog,
                   release_response, outputs, calls, api_calls, runs,
                   file_at_start,
                   cog_on_path>>

\* A new process on the file the last one left
NewProcess ==
    /\ runs < MaxRuns
    /\ runs' = runs + 1
    /\ file_at_start' = file
    /\ inputs' = NoInputs
    /\ remote' = NONE
    /\ owner' = NONE
    /\ repo' = NONE
    /\ dry_run' = FALSE
    /\ changes_made' = FALSE
    /\ outputs' = EmptyDict
    /\ calls' = <<>>
    /\ stages' = <<>>
    /\ log' = <<>>
    /\ raised' = EMPTY
    /\ exit_code' = EMPTY
    /\ UNCHANGED <<user_input, file, previous_version, bump_result,
                   current_version, changelog, release_response, api_calls,
                   cog_on_path>>

\* The action is run again with the same inputs, once the synchronizer of the
\* last run has ended; COG_* of the last process are not inherited
RunAgain ==
    /\ pc \in {"get_previous_version", "exited"}
    /\ NewProcess
    /\ pc' = "get_action_inputs"
    /\ env' = [env EXCEPT !.COG_REMOTE = NONE, !.COG_REPOSITORY = NONE,
                          !.COG_OWNER = NONE]

\* The script is run again with the same environment
RunScriptAgain ==
    /\ pc = "script_exited"
    /\ NewProcess
    /\ pc' = "script_main"
    /\ env' = env

NextSync ==
    \/ GetActionInputs
    \/ SetDefaultValues
    \/ DetermineDryRunMode
    \/ SetupCogConfiguration
    \/ RunAgain
    \/ SetupCogConfigScript
    \/ RunScriptAgain

SpecSync == InitSync /\ [][NextSync]_vars

----------------------------------------------------------------------------
(* The vocabulary of the properties, read off the raw inputs, the           *)
(* environment and the record of what the run did.                          *)

TrueSpellings == {<<"true">>, <<"True">>, <<"TRUE">>}

\* A boolean input: its default when not given, else whether it spells true
Flag(raw, default) ==
    IF raw \in {NONE, EMPTY} THEN default ELSE raw \in TrueSpellings

ExplicitDryRun == Flag(user_input.dry_run, FALSE)

DryRunOnNonDefaultBranch == Flag(user_input.dry_run_on_non_default_branch, TRUE)

ReleaseEnabled == Flag(user_input.create_forgejo_release, TRUE)

SyncEnabled == Flag(user_input.update_cog_toml, TRUE)

\* A ref that is not set reads as the empty ref
RefOf(x) == IF x = NONE THEN EMPTY ELSE x

OnDefaultBranch == RefOf(env.GITHUB_HEAD_REF) = RefOf(env.GITHUB_BASE_REF)

Present(x) == x # NONE /\ x # EMPTY

TokenPresent == Present(env.FORGEJO_TOKEN)

ServerResolvable ==
    Present(env.FORGEJO_SERVER_URL) \/ Present(env.GITHUB_SERVER_URL)

\* main() has called the function
Ran(stage) == \E i \in DOMAIN stages : stages[i] = stage

Exited == pc = "exited"

IsCog(c, sub) == Len(c.argv) >= 2 /\ c.argv[1] = <<"cog">> /\ c.argv[2] = <<sub>>

IsGit(c, sub) == Len(c.argv) >= 2 /\ c.argv[1] = <<"git">> /\ c.argv[2] = <<sub>>

\* The calls of one cog subcommand, in order
CogCalls(sub) == SelectSeq(calls, LAMBDA c : IsCog(c, sub))

GitCalls(sub) == SelectSeq(calls, LAMBDA c : IsGit(c, sub))

Failed(cs) == \E i \in DOMAIN cs : cs[i].rc # 0

BumpFailed == Failed(CogCalls("bump"))

ChangelogFailed == Failed(CogCalls("changelog"))

\* How many version queries main() has made
Queries == Len(SelectSeq(stages, LAMBDA s : s = "get_cog_version"))

\* The n-th version query failed: cog could not be started, or it ended with
\* a non-zero status
QueryFailed(n) ==
    /\ Queries >= n
    /\ \/ Len(CogCalls("get-version")) < n
       \/ CogCalls("get-version")[n].rc # 0

PreviousQueryFailed == QueryFailed(1)

CurrentQueryFailed == QueryFailed(2)

ReleaseCallRaised == \E i \in DOMAIN api_calls : api_calls[i].raised

----------------------------------------------------------------------------
(* C1 *)

\* C1: once the decision is made, it is DRY_RUN exactly when (explicit_dry_run
\* and on_default_branch) or (not explicit_dry_run and
\* dry_run_on_non_default_branch and not on_default_branch), whatever the
\* spelling of the flags and the refs; every other case is LIVE.
C1_DecisionTable ==
    Ran("determine_dry_run_mode") =>
        (dry_run <=> \/ ExplicitDryRun /\ OnDefaultBranch
                     \/ ~ExplicitDryRun /\ DryRunOnNonDefaultBranch
                                        /\ ~OnDefaultBranch)

\* The explicit flag on a non-default branch, with the other trigger on: LIVE
C1_Witness ==
    /\ Ran("determine_dry_run_mode")
    /\ ExplicitDryRun /\ DryRunOnNonDefaultBranch /\ ~OnDefaultBranch
    /\ ~dry_run
    /\ outputs["dry_run_arg"] = EMPTY

----------------------------------------------------------------------------
(* C2 *)

\* C2: in a run whose decision is DRY_RUN no create-release request is sent
\* and no forgejo_release_output is emitted.
C2_DryRunNeverPublishes ==
    dry_run => /\ api_calls = <<>>
               /\ "forgejo_release_output" \notin DOMAIN outputs

----------------------------------------------------------------------------
(* C3 *)

\* C3: a create-release request is sent only when release creation is enabled,
\* the version queried after the bump is non-empty, a token is present and a
\* server URL is resolvable, and it goes to the override URL when there is one;
\* when one of the four fails the run ends with no request sent, a null result
\* and exit code 0.
C3_ReleaseOnlyWhenAllowed ==
    /\ Len(api_calls) <= 1
    /\ api_calls # <<>> =>
          /\ ReleaseEnabled /\ Present(current_version)
          /\ TokenPresent /\ ServerResolvable
          /\ api_calls[1].api_key = env.FORGEJO_TOKEN
          /\ Present(env.FORGEJO_SERVER_URL) =>
                api_calls[1].base_url = <<"https", "://">> \o env.FORGEJO_SERVER_URL
          /\ ~Present(env.FORGEJO_SERVER_URL) =>
                api_calls[1].base_url = env.GITHUB_SERVER_URL
    /\ pc = "create_forgejo_release" => ENABLED CreateForgejoRelease
    /\ (Exited /\ Ran("generate_changelog")
          /\ ~(ReleaseEnabled /\ Present(current_version)
               /\ TokenPresent /\ ServerResolvable)) =>
          /\ api_calls = <<>>
          /\ release_response = NONE
          /\ "forgejo_release_output" \notin DOMAIN outputs
          /\ exit_code = <<0>>

\* Everything but the token is there: no request, and the run ended normally
C3_Witness ==
    /\ Exited /\ Ran("create_forgejo_release")
    /\ ReleaseEnabled /\ Present(current_version) /\ ServerResolvable
    /\ ~TokenPresent
    /\ api_calls = <<>>
    /\ release_response = NONE
    /\ exit_code = <<0>>

----------------------------------------------------------------------------
(* C4 *)

\* C4: the process ends with code 1 only out of the Config Synchronizer step.
\* A failed version query (cog not started, or a non-zero status), bump,
\* changelog call, release call, diagnostic git call, commit or push leaves
\* its benign default ("", false, null), raises nothing, and the run goes on
\* to end with code 0.
C4_OnlySyncIsFatal ==
    /\ exit_code = <<1>> =>
          /\ raised # EMPTY
          /\ stages[Len(stages)] = "setup_cog_configuration"
          /\ calls \in {<<>>, <<Call(GitAdd, NONE, 1)>>}
    /\ (Failed(GitCalls("commit")) \/ Failed(GitCalls("push"))) => raised = EMPTY
    /\ PreviousQueryFailed => previous_version = EMPTY /\ raised = EMPTY
    /\ BumpFailed => bump_result = FALSE /\ raised = EMPTY
    /\ (Failed(GitCalls("status")) \/ Failed(GitCalls("diff"))) => raised = EMPTY
    /\ CurrentQueryFailed => current_version = EMPTY /\ raised = EMPTY
    /\ ChangelogFailed => changelog = EMPTY /\ raised = EMPTY
    /\ ReleaseCallRaised => release_response = NONE /\ raised = EMPTY
    /\ (~Exited /\ Ran("setup_cog_configuration")) => ENABLED Next
    /\ (Exited /\ Ran("get_cog_version")) =>
          /\ exit_code = <<0>>
          /\ Ran("bump_version") /\ Ran("generate_changelog")

----------------------------------------------------------------------------
(* C5 *)

\* C5: with synchronization enabled and no configuration file, the step fails
\* with nothing written and no git command run, the run ends with code 1, and
\* no later step (version query, bump, changelog, release) is invoked.
C5_MissingConfigIsFatal ==
    (Ran("setup_cog_configuration") /\ SyncEnabled /\ ~file_at_start.exists) =>
        /\ Exited
        /\ exit_code = <<1>>
        /\ raised = <<"ReleaseWithCogError", "FileNotFoundError">>
        /\ file = file_at_start
        /\ calls = <<>>
        /\ api_calls = <<>>
        /\ stages[Len(stages)] = "setup_cog_configuration"
        /\ DOMAIN outputs = {"remote", "owner", "repo", "dry_run_arg"}

C5_Witness ==
    /\ Ran("setup_cog_configuration") /\ SyncEnabled /\ ~file_at_start.exists
    /\ Exited /\ exit_code = <<1>>
    /\ ~file.exists

----------------------------------------------------------------------------
(* C6, C7, C8: the Config Synchronizer *)

ScriptMode == pc \in {"script_main", "script_exited"}

\* The synchronizer of the current run has ended
SyncEnded == pc \in {"get_previous_version", "exited", "script_exited"}

\* setup_cog_config was called in the current run and returned
Returned ==
    /\ SyncEnded
    /\ ScriptMode \/ SyncEnabled
    /\ file_at_start.exists /\ file_at_start.parses

\* The value supplied for a field: by the script from the environment, by
\* main() from the resolved coordinates
Supplied(k) ==
    IF ScriptMode
    THEN CASE k = "remote" -> env.COG_REMOTE
           [] k = "repository" -> env.COG_REPOSITORY
           [] k = "owner" -> env.COG_OWNER
    ELSE CASE k = "remote" -> remote
           [] k = "repository" -> repo
           [] k = "owner" -> owner

\* The changelog section of a file, empty when it has none
Section(f) ==
    IF f.exists /\ f.parses /\ "changelog" \in DOMAIN f.doc
    THEN f.doc["changelog"] ELSE EmptyDict

\* The fields a run has to set: absent from the file it started on, and supplied
FieldsToSet ==
    {k \in Fields : k \notin DOMAIN Section(file_at_start) /\ Supplied(k) # NONE}

\* C6: after setup_cog_config each of remote, repository and owner has its
\* pre-existing value if it had one, the supplied value if it was absent and
\* one was supplied, and is still absent otherwise; every other key of the
\* file keeps its value and no other key appears.
C6_FieldsSetOnlyIfMissing ==
    Returned =>
        LET old == Section(file_at_start)
            new == Section(file)
        IN  /\ \A k \in Fields :
                 /\ k \in DOMAIN old => k \in DOMAIN new /\ new[k] = old[k]
                 /\ k \in FieldsToSet => k \in DOMAIN new /\ new[k] = Supplied(k)
                 /\ (k \notin DOMAIN old /\ Supplied(k) = NONE) => k \notin DOMAIN new
            /\ DOMAIN new = DOMAIN old \cup FieldsToSet
            /\ \A k \in DOMAIN old : new[k] = old[k]
            /\ DOMAIN file.doc \ {"changelog"} = DOMAIN file_at_start.doc \ {"changelog"}
            /\ \A k \in DOMAIN file_at_start.doc \ {"changelog"} :
                 file.doc[k] = file_at_start.doc[k]

\* One field kept against a different supplied value, one set, one left absent,
\* beside two other keys
C6_Witness ==
    /\ Returned /\ ScriptMode
    /\ Section(file_at_start) =
          [path |-> <<"CHANGELOG.md">>, template |-> <<"remote">>,
           remote |-> <<"existing-remote">>]
    /\ env.COG_REMOTE = <<"test-remote">>
    /\ env.COG_REPOSITORY = <<"test-repo">>
    /\ env.COG_OWNER = NONE
    /\ Section(file) =
          [path |-> <<"CHANGELOG.md">>, template |-> <<"remote">>,
           remote |-> <<"existing-remote">>, repository |-> <<"test-repo">>]

\* C7: when the synchronizer is run again with the same supplied values on the
\* file the last run left, it returns changes_made = false, leaves the file as
\* it found it, and runs no git command.
C7_SecondRunIsNoOp ==
    (runs >= 2 /\ SyncEnded) =>
        /\ changes_made = FALSE
        /\ file = file_at_start
        /\ calls = <<>>
        /\ Returned => raised = EMPTY

\* The first run wrote the file and the second, with the step enabled, did not
C7_Witness ==
    /\ runs = 2 /\ SyncEnded /\ ~ScriptMode /\ SyncEnabled
    /\ Ran("setup_cog_configuration")
    /\ file.rev = 1
    /\ changes_made = FALSE
    /\ calls = <<>>
    /\ raised = EMPTY

\* C8: setup_cog_config writes the file exactly when at least one field was
\* set and returns changes_made = true exactly then; when nothing is set the
\* file is as it was.
C8_WritesOnlyOnChange ==
    Returned =>
        /\ changes_made <=> FieldsToSet # {}
        /\ file.rev # file_at_start.rev <=> FieldsToSet # {}
        /\ FieldsToSet = {} => file = file_at_start

\* The three values None against a file that lacks the three fields
C8_Witness ==
    /\ Returned /\ ScriptMode
    /\ env.COG_REMOTE = NONE /\ env.COG_REPOSITORY = NONE /\ env.COG_OWNER = NONE
    /\ Section(file_at_start) = OtherKeys
    /\ changes_made = FALSE
    /\ file = file_at_start

----------------------------------------------------------------------------
(* C9, C10 *)

\* The last argument of a call
LastArg(c) == c.argv[Len(c.argv)]

\* C9: when cog bump exits non-zero, bump_version returns false and raises
\* nothing, and the run goes on: the version is queried again, the changelog
\* is generated, the release is created when enabled and the version queried
\* is non-empty, all with the version that query reported, and the run ends
\* with code 0.
C9_BumpFailureContinues ==
    BumpFailed =>
        /\ bump_result = FALSE
        /\ raised = EMPTY
        /\ ~Exited => ENABLED Next
        /\ Exited =>
              /\ exit_code = <<0>>
              /\ Len(CogCalls("get-version")) = 2
              /\ Len(CogCalls("changelog")) = 1
              /\ SubSeq(stages, Len(stages) - (IF Ran("create_forgejo_release")
                                                THEN 3 ELSE 2), Len(stages))
                    = <<"bump_version", "get_cog_version", "generate_changelog">>
                      \o (IF Ran("create_forgejo_release")
                          THEN <<"create_forgejo_release">> ELSE <<>>)
              /\ outputs["current_version"] = current_version
              /\ Present(current_version) =>
                    LET at == LastArg(CogCalls("changelog")[1])
                    IN  at[Len(at)] = current_version[1]
              /\ Ran("create_forgejo_release")
                    <=> (ReleaseEnabled /\ Present(current_version))
              /\ \A i \in DOMAIN api_calls :
                    api_calls[i].tag_name = current_version

\* After a failed bump the release of the version the query reported was created
C9_Witness ==
    /\ Exited /\ BumpFailed
    /\ bump_result = FALSE
    /\ current_version = <<"1.1.0">>
    /\ api_calls # <<>> /\ Present(release_response)
    /\ exit_code = <<0>>

\* C10: when the changelog tool fails, generate_changelog returns "" and
\* raises nothing, the changelog output is "", and the release is still
\* attempted, with an empty body, whenever release creation is enabled and the
\* current version is non-empty.
C10_ChangelogFailureContinues ==
    ChangelogFailed =>
        /\ changelog = EMPTY
        /\ outputs["changelog"] = EMPTY
        /\ raised = EMPTY
        /\ ~Exited => ENABLED CreateForgejoRelease
        /\ Exited =>
              /\ exit_code = <<0>>
              /\ (ReleaseEnabled /\ Present(current_version)) =>
                    Ran("create_forgejo_release")
              /\ (ReleaseEnabled /\ Present(current_version)
                    /\ TokenPresent /\ ServerResolvable) => Len(api_calls) = 1
              /\ \A i \in DOMAIN api_calls : api_calls[i].body = EMPTY

\* A release created with an empty body after the changelog tool failed
C10_Witness ==
    /\ Exited /\ ChangelogFailed
    /\ Len(api_calls) = 1 /\ api_calls[1].body = EMPTY
    /\ Present(release_response)
    /\ JsonLoads(release_response).body = EMPTY

----------------------------------------------------------------------------
(* C11 *)

\* The last line logged
LastLogged == log[Len(log)]

NoReleaseOutput == "forgejo_release_output" \notin DOMAIN outputs

\* C11: create_forgejo_release always returns.  With no token in the
\* environment it logs an error, sends no request and returns null; when the
\* create-release call raises it logs the failure and returns null.  In both
\* cases no forgejo_release_output is emitted and the run ends with code 0.
C11_ReleaseNeverRaises ==
    /\ pc = "create_forgejo_release" => ENABLED CreateForgejoRelease
    /\ Ran("create_forgejo_release") =>
          /\ Exited /\ exit_code = <<0>> /\ raised = EMPTY
    /\ (Ran("create_forgejo_release") /\ ~TokenPresent) =>
          /\ api_calls = <<>>
          /\ release_response = NONE
          /\ log # <<>>
          /\ LastLogged = error("FORGEJO_TOKEN environment variable not set")
          /\ NoReleaseOutput
    /\ ReleaseCallRaised =>
          /\ Ran("create_forgejo_release")
          /\ release_response = NONE
          /\ LastLogged = error("Failed to create Forgejo release")
          /\ NoReleaseOutput

\* The create-release call raised: null, an error line, no output, code 0
C11_Witness ==
    /\ Exited /\ Ran("create_forgejo_release")
    /\ TokenPresent /\ Len(api_calls) = 1 /\ api_calls[1].raised
    /\ release_response = NONE
    /\ LastLogged = error("Failed to create Forgejo release")
    /\ NoReleaseOutput
    /\ exit_code = <<0>>

----------------------------------------------------------------------------
(* C12 *)

\* C12: when cog get-version fails (it cannot be started, or it ends with a
\* non-zero status), before or after the bump, get_cog_version returns "" and
\* raises nothing, the output of that query (previous_version
\* or current_version) is "", and the run goes on with the next step: the bump
\* after the first query, the changelog after the second.
C12_VersionQueryFailureContinues ==
    /\ pc = "get_previous_version" => ENABLED GetPreviousVersion
    /\ pc = "get_current_version" => ENABLED GetCurrentVersion
    /\ PreviousQueryFailed =>
          /\ previous_version = EMPTY
          /\ outputs["previous_version"] = EMPTY
          /\ raised = EMPTY
          /\ pc = "bump_version" \/ Ran("bump_version")
          /\ pc = "bump_version" => ENABLED BumpVersion
    /\ CurrentQueryFailed =>
          /\ current_version = EMPTY
          /\ outputs["current_version"] = EMPTY
          /\ raised = EMPTY
          /\ pc = "generate_changelog" \/ Ran("generate_changelog")
          /\ pc = "generate_changelog" => ENABLED GenerateChangelog
          /\ Exited => exit_code = <<0>>

----------------------------------------------------------------------------
(* C13 *)

Logged(line) == \E i \in DOMAIN log : log[i] = line

\* C13: when git commit or git push fails in the Config Synchronizer step, the
\* failure is logged and nothing is raised: the step ends normally, the run
\* goes on to the version query and the bump, and it ends with code 0.
C13_CommitPushFailureSwallowed ==
    (Failed(GitCalls("commit")) \/ Failed(GitCalls("push"))) =>
        /\ raised = EMPTY
        /\ Logged(info("No changes to commit or push failed"))
        /\ ~Logged(error("Failed to setup cog configuration"))
        /\ pc = "get_previous_version" \/ Ran("get_cog_version")
        /\ ~Exited => ENABLED Next
        /\ Exited =>
              /\ exit_code = <<0>>
              /\ Len(CogCalls("get-version")) = 2
              /\ Len(CogCalls("bump")) = 1

----------------------------------------------------------------------------
(* C14 *)

\* A create-release call returned: the release exists on the forge
ReleaseCreated == \E i \in DOMAIN api_calls : ~api_calls[i].raised

\* C14: forgejo_release_output is emitted exactly when a release was created,
\* and it is the JSON text of an object {tag_name, name, body, html_url, id}:
\* decoding it once gives that record, with tag_name and name the current
\* version and body the generated changelog.
C14_OutputIsEncodedRecord ==
    /\ Exited => (~NoReleaseOutput <=> ReleaseCreated)
    /\ ~NoReleaseOutput =>
          LET out == outputs["forgejo_release_output"]
          IN  /\ out[1] = "json"
              /\ DOMAIN JsonLoads(out) = {"tag_name", "name", "body", "html_url", "id"}
              /\ JsonLoads(out).tag_name = current_version
              /\ JsonLoads(out).name = current_version
              /\ JsonLoads(out).body = changelog

----------------------------------------------------------------------------
(* C15 *)

\* How many times main() has called the function
Times(stage) == Len(SelectSeq(stages, LAMBDA st : st = stage))

HasArg(c, arg) == \E i \in DOMAIN c.argv : c.argv[i] = <<arg>>

\* The words of the cog_bump_args input
UserBumpArgs ==
    IF user_input.cog_bump_args = NONE THEN <<>>
    ELSE Split(user_input.cog_bump_args)

\* The decision is made once, dry_run keeps it, and dry_run_arg spells it
DecisionMadeOnceAndExposed ==
    /\ Times("determine_dry_run_mode") <= 1
    /\ Ran("determine_dry_run_mode") =>
          /\ dry_run <=> determine_dry_run_mode(inputs)
          /\ dry_run => outputs["dry_run_arg"] = <<"--dry-run">>
          /\ ~dry_run => outputs["dry_run_arg"] = EMPTY

\* C15 as stated: the decision is made once per run and dry_run_arg spells it,
\* and the command line of cog bump carries --dry-run exactly when the decision
\* is DRY_RUN.
C15_DryRunFlagIffDecision ==
    /\ DecisionMadeOnceAndExposed
    /\ \A i \in DOMAIN CogCalls("bump") :
          HasArg(CogCalls("bump")[i], "--dry-run") <=> dry_run

\* C15 amended: the decision is made once per run and dry_run_arg spells it,
\* and the command line of cog bump is: bump, the words of cog_bump_args as
\* given, the token --dry-run exactly when the decision is DRY_RUN, then --auto
\* --skip-ci.  With no --dry-run among the user's words the command line
\* carries --dry-run exactly when the decision is DRY_RUN.
C15_DryRunTokenIffDecision ==
    /\ DecisionMadeOnceAndExposed
    /\ Len(CogCalls("bump")) <= 1
    /\ \A i \in DOMAIN CogCalls("bump") :
          LET c == CogCalls("bump")[i]
          IN  /\ c.argv = Words(<<"cog", "bump">>)
                          \o UserBumpArgs
                          \o (IF dry_run THEN Words(<<"--dry-run">>) ELSE <<>>)
                          \o Words(<<"--auto", "--skip-ci">>)
              /\ (\A j \in DOMAIN UserBumpArgs : UserBumpArgs[j] # <<"--dry-run">>)
                    => (HasArg(c, "--dry-run") <=> dry_run)

\* A dry run whose bump got the user's words, then the token, then the flags
C15_Witness ==
    /\ dry_run
    /\ outputs["dry_run_arg"] = <<"--dry-run">>
    /\ Len(CogCalls("bump")) = 1
    /\ CogCalls("bump")[1].argv =
          Words(<<"cog", "bump", "--pre", "rc", "--dry-run", "--auto", "--skip-ci">>)

----------------------------------------------------------------------------
(* C16 *)

\* The git calls of the Config Synchronizer step, in order
SyncGitCalls ==
    SelectSeq(calls, LAMBDA c : c.argv \in {GitAdd, GitDiffCached, GitCommit, GitPush})

\* The command lines of a sequence of calls
Argvs(cs) == [i \in DOMAIN cs |-> cs[i].argv]

FileWritten == file.rev # file_at_start.rev

\* C16: the git calls of the Config Synchronizer step come in the order add,
\* diff --cached --quiet, commit, push, each at most once.  The file is staged
\* only after setup_cog_config wrote changes; the commit is attempted only
\* after a successful add and a diff --cached --quiet that exited non-zero;
\* the push only after the commit succeeded.  With synchronization disabled
\* or nothing written, none of them runs.
C16_GitOnlyAfterChangesInOrder ==
    LET g == SyncGitCalls
    IN  /\ \E n \in 0..4 :
              Argvs(g) = SubSeq(<<GitAdd, GitDiffCached, GitCommit, GitPush>>, 1, n)
        /\ g # <<>> =>
              /\ SyncEnabled /\ changes_made /\ FileWritten
              /\ Ran("setup_cog_configuration")
              /\ SubSeq(calls, 1, Len(g)) = g
        /\ Len(g) >= 2 => g[1].rc = 0
        /\ Len(g) >= 3 => g[2].rc # 0
        /\ Len(g) >= 4 => g[3].rc = 0
        /\ (~SyncEnabled \/ ~changes_made \/ ~FileWritten) => g = <<>>

\* Changes written, staged, found in the staged diff, committed and pushed
C16_Witness ==
    /\ Ran("setup_cog_configuration") /\ changes_made /\ FileWritten
    /\ Argvs(SyncGitCalls) = <<GitAdd, GitDiffCached, GitCommit, GitPush>>
    /\ SyncGitCalls[2].rc = 1
    /\ SyncGitCalls[3].rc = 0
    /\ SyncGitCalls[4].rc = 0

----------------------------------------------------------------------------
(* C17 *)

\* The functions main() calls, in the order of its statements; the version
\* query is get_cog_version both times
StageOrder ==
    <<"get_action_inputs", "set_default_values", "determine_dry_run_mode",
      "setup_cog_configuration", "get_cog_version", "bump_version",
      "get_cog_version", "generate_changelog", "create_forgejo_release">>

\* The order of the cog calls of a run
CogOrder == <<"get-version", "bump", "get-version", "changelog">>

\* The subcommands of the cog calls made, in order
CogSubcommands ==
    LET cs == SelectSeq(calls, LAMBDA c : c.argv[1] = <<"cog">>)
    IN  [i \in DOMAIN cs |-> cs[i].argv[2][1]]

\* C17: the stages of a run are called at most once each, in the order input
\* resolution, dry-run decision, config synchronization, previous-version
\* query, bump, current-version query, changelog, release, never going back.
\* previous_version is what the query before the bump returned and
\* current_version what the query after it returned; the changelog is
\* generated at current_version and the release is created for it.
C17_StagesInFixedOrder ==
    /\ stages = SubSeq(StageOrder, 1, Len(stages))
    /\ CogSubcommands = SubSeq(CogOrder, 1, Len(CogSubcommands))
    /\ previous_version # NONE <=> Len(CogCalls("get-version")) >= 1
    /\ current_version # NONE <=> Len(CogCalls("get-version")) = 2
    /\ previous_version # NONE => outputs["previous_version"] = previous_version
    /\ current_version # NONE =>
          /\ outputs["current_version"] = current_version
          /\ Len(CogCalls("bump")) = 1
    /\ \A i \in DOMAIN CogCalls("changelog") :
          LET c == CogCalls("changelog")[i]
          IN  Present(current_version) =>
                  /\ c.argv[Len(c.argv) - 1] = <<"--at">>
                  /\ LastArg(c) = get_tag_prefix(file) \o current_version
    /\ \A i \in DOMAIN api_calls :
          /\ api_calls[i].tag_name = current_version
          /\ api_calls[i].name = current_version
    /\ Ran("create_forgejo_release") => Present(current_version)

\* A run through all the stages: 1.0.0 before the bump, 1.1.0 after it, the
\* changelog at v1.1.0 and the release of 1.1.0
C17_Witness ==
    /\ Exited /\ stages = StageOrder
    /\ previous_version = <<"1.0.0">>
    /\ current_version = <<"1.1.0">>
    /\ LastArg(CogCalls("changelog")[1]) = <<"v", "1.1.0">>
    /\ Len(api_calls) = 1 /\ api_calls[1].tag_name = <<"1.1.0">>

----------------------------------------------------------------------------
(* C18 *)

\* A cog call has been made in this run
CogCalled == \E i \in DOMAIN calls : calls[i].argv[1] = <<"cog">>

\* C18 as stated: the side effects of a run come in the order bump, changelog,
\* config persistence, release: cog.toml is not written, staged, committed or
\* pushed before the bump and the changelog of the run were made, and the
\* release request follows them.
C18_PersistenceAfterChangelog ==
    /\ CogSubcommands = SubSeq(CogOrder, 1, Len(CogSubcommands))
    /\ (FileWritten \/ SyncGitCalls # <<>>) =>
          /\ Len(CogCalls("bump")) = 1
          /\ Len(CogCalls("changelog")) = 1
    /\ api_calls # <<>> => Len(CogCalls("changelog")) = 1

\* The order of the calls recorded: the git calls of the synchronizer before
\* every other call, the bump before the changelog, the release request after
\* the changelog
PersistenceFirst ==
    /\ SubSeq(calls, 1, Len(SyncGitCalls)) = SyncGitCalls
    /\ CogSubcommands = SubSeq(CogOrder, 1, Len(CogSubcommands))
    /\ api_calls # <<>> => Len(CogCalls("changelog")) = 1

\* C18 amended: the side effects of a run come in the order config persistence
\* (the write of cog.toml and its add, commit and push), bump, changelog,
\* release: once the first cog call of the run is made, cog.toml is not
\* written and no git add, commit or push of it runs.
C18_PersistenceBeforeBump ==
    /\ []PersistenceFirst
    /\ [][CogCalled => /\ file' = file
                       /\ SyncGitCalls' = SyncGitCalls]_vars

\* cog.toml written, committed and pushed, then the bump, the changelog and the
\* release request
C18_Witness ==
    /\ Exited /\ FileWritten
    /\ Len(calls) = 10
    /\ Argvs(SubSeq(calls, 1, 4)) = <<GitAdd, GitDiffCached, GitCommit, GitPush>>
    /\ calls[4].rc = 0
    /\ IsCog(calls[6], "bump") /\ calls[6].rc = 0
    /\ IsCog(calls[10], "changelog") /\ calls[10].rc = 0
    /\ Len(api_calls) = 1 /\ ~api_calls[1].raised

----------------------------------------------------------------------------
(* C19 *)

\* The server URL the release goes to: the override, else the forge's own
ResolvedServerUrl ==
    IF Present(env.FORGEJO_SERVER_URL) THEN env.FORGEJO_SERVER_URL
    ELSE env.GITHUB_SERVER_URL

\* ... with https:// in front when it carries no scheme
NormalizedServerUrl ==
    IF Len(ResolvedServerUrl) >= 2 /\ ResolvedServerUrl[2] = "://"
    THEN ResolvedServerUrl
    ELSE <<"https", "://">> \o ResolvedServerUrl

ConstructedUrl ==
    NormalizedServerUrl \o <<"/">> \o owner \o <<"/">> \o repo
                        \o <<"/releases/tag/">> \o current_version

\* The response carries a value for the field
Supplies(response, k) == k \in DOMAIN response /\ response[k] # NONE

\* C19: after a create-release call that returned, html_url of the record is
\* the URL of the response when the response supplies one and, whenever it
\* supplies none, the URL {server}/{owner}/{repo}/releases/tag/{version} on the
\* resolved server URL with its scheme; id is the identifier of the response
\* when it supplies one and null otherwise.
C19_HtmlUrlFromApiOrConstructed ==
    \A i \in DOMAIN api_calls :
        (~api_calls[i].raised /\ Exited) =>
            LET response == api_calls[i].response
                record == JsonLoads(release_response)
            IN  /\ release_response # NONE
                /\ Supplies(response, "html_url") =>
                      record.html_url = response["html_url"]
                /\ ~Supplies(response, "html_url") =>
                      record.html_url = ConstructedUrl
                /\ Supplies(response, "id") => record.id = response["id"]
                /\ ~Supplies(response, "id") => record.id = NONE

----------------------------------------------------------------------------
(* C20 *)

AllCoordinates == Present(remote) /\ Present(owner) /\ Present(repo)

\* tag_prefix of cog.toml, "" when the file is missing or unparsable or has no
\* such key
TagPrefix ==
    IF file.exists /\ file.parses /\ "tag_prefix" \in DOMAIN file.doc
    THEN file.doc["tag_prefix"]
    ELSE EMPTY

\* The words of the cog_changelog_args input
UserChangelogArgs ==
    IF user_input.cog_changelog_args = NONE THEN <<>>
    ELSE Split(user_input.cog_changelog_args)

\* The changelog tool is run whenever the step is reached, whatever the
\* version, the coordinates and the state of cog.toml
ChangelogAlwaysInvoked ==
    /\ pc = "generate_changelog" => ENABLED GenerateChangelog
    /\ Ran("generate_changelog") => Len(CogCalls("changelog")) = 1
    /\ Len(CogCalls("changelog")) <= 1

\* C20 as stated: the command line of cog changelog has --remote, --owner and
\* --repository exactly when the three coordinates are all non-empty and none
\* of them otherwise, and --at exactly when the version is non-empty, with the
\* tag tag_prefix + version; the tool is run in every case.
C20_ChangelogFlags ==
    /\ ChangelogAlwaysInvoked
    /\ \A i \in DOMAIN CogCalls("changelog") :
          LET c == CogCalls("changelog")[i]
          IN  /\ AllCoordinates =>
                    /\ HasArg(c, "--remote") /\ HasArg(c, "--owner")
                    /\ HasArg(c, "--repository")
              /\ ~AllCoordinates =>
                    /\ ~HasArg(c, "--remote") /\ ~HasArg(c, "--owner")
                    /\ ~HasArg(c, "--repository")
              /\ HasArg(c, "--at") <=> Present(current_version)
              /\ Present(current_version) =>
                    /\ c.argv[Len(c.argv) - 1] = <<"--at">>
                    /\ LastArg(c) = TagPrefix \o current_version

\* C20 amended: the command line of cog changelog is: changelog, the words of
\* cog_changelog_args as given, then --remote R --owner O --repository P
\* exactly when the three coordinates are all non-empty, then --at with the
\* tag tag_prefix + version exactly when the version is non-empty; the tool is
\* run in every case.
C20_ChangelogCommandLine ==
    /\ ChangelogAlwaysInvoked
    /\ \A i \in DOMAIN CogCalls("changelog") :
          CogCalls("changelog")[i].argv =
              Words(<<"cog", "changelog">>)
              \o UserChangelogArgs
              \o (IF AllCoordinates
                  THEN <<<<"--remote">>, remote, <<"--owner">>, owner,
                         <<"--repository">>, repo>>
                  ELSE <<>>)
              \o (IF Present(current_version)
                  THEN <<<<"--at">>, TagPrefix \o current_version>>
                  ELSE <<>>)

\* Two of the three coordinates, a version and a tag prefix: no coordinate
\* flag, and --at v1.1.0
C20_Witness ==
    /\ Len(CogCalls("changelog")) = 1
    /\ remote = <<"codeberg.org">> /\ owner = EMPTY /\ repo = <<"site">>
    /\ current_version = <<"1.1.0">>
    /\ CogCalls("changelog")[1].argv =
          Words(<<"cog", "changelog", "--at">>) \o <<<<"v", "1.1.0">>>>

----------------------------------------------------------------------------
(* C21 *)

\* The part of s after the first sep, s itself when it has none
After(s, sep) ==
    IF \E i \in DOMAIN s : s[i] = sep
    THEN LET i == CHOOSE k \in DOMAIN s :
                      s[k] = sep /\ \A j \in 1..(k - 1) : s[j] # sep
         IN  SubSeq(s, i + 1, Len(s))
    ELSE s

\* An input when given and non-empty, else the default
InputElse(raw, default) == IF Present(raw) THEN raw ELSE default

\* The coordinates a run has to resolve, from its inputs and its environment
ResolvedRemote ==
    InputElse(user_input.remote, After(RefOf(env.GITHUB_SERVER_URL), "://"))

ResolvedOwner ==
    InputElse(user_input.owner, RefOf(env.GITHUB_REPOSITORY_OWNER))

ResolvedRepo ==
    InputElse(user_input.repo, After(RefOf(env.GITHUB_REPOSITORY), "/"))

\* The call has flag followed by value
HasFlag(c, flag, value) ==
    \E j \in 1..(Len(c.argv) - 1) : c.argv[j] = <<flag>> /\ c.argv[j + 1] = value

\* Once resolved, the coordinates are the inputs where given and the defaults
\* of the environment elsewhere, they stay so to the end of the run, and they
\* are the values emitted, handed to the Config Synchronizer (which writes
\* them for the fields cog.toml lacked) and put on the changelog command line
CoordinatesResolvedAndKept ==
    Ran("set_default_values") =>
        /\ remote = ResolvedRemote
        /\ owner = ResolvedOwner
        /\ repo = ResolvedRepo
        /\ outputs["remote"] = remote
        /\ outputs["owner"] = owner
        /\ outputs["repo"] = repo
        /\ (Ran("setup_cog_configuration") /\ SyncEnabled) =>
              /\ env.COG_REMOTE = remote
              /\ env.COG_OWNER = owner
              /\ env.COG_REPOSITORY = repo
        /\ FileWritten =>
              \A k \in Fields :
                  k \notin DOMAIN Section(file_at_start) =>
                      /\ k \in DOMAIN Section(file)
                      /\ Section(file)[k] = Supplied(k)
        /\ \A i \in DOMAIN CogCalls("changelog") :
              AllCoordinates =>
                  /\ HasFlag(CogCalls("changelog")[i], "--remote", remote)
                  /\ HasFlag(CogCalls("changelog")[i], "--owner", owner)
                  /\ HasFlag(CogCalls("changelog")[i], "--repository", repo)

\* C21 as stated: the resolved remote, owner and repo are the values emitted
\* and the values every later step gets (the Config Synchronizer, the
\* changelog flags, the create-release call: its server is remote, its owner
\* and repository are owner and repo), and no step changes them.
C21_CoordinatesUsedEverywhere ==
    /\ CoordinatesResolvedAndKept
    /\ \A i \in DOMAIN api_calls :
          /\ api_calls[i].owner = owner
          /\ api_calls[i].repo = repo
          /\ After(api_calls[i].base_url, "://") = remote

\* C21 amended: the resolved remote, owner and repo are the values emitted and
\* the values every later step that takes them gets: all three the Config
\* Synchronizer and the changelog flags, owner and repo the create-release
\* call; and no step changes them.
C21_CoordinatesUsedWherePassed ==
    /\ CoordinatesResolvedAndKept
    /\ \A i \in DOMAIN api_calls :
          /\ api_calls[i].owner = owner
          /\ api_calls[i].repo = repo

\* remote and repo given as inputs against a runner's environment, owner taken
\* from the environment: written to cog.toml, put on the changelog command
\* line, and owner and repo sent with the release request
C21_Witness ==
    /\ Exited
    /\ Present(env.GITHUB_SERVER_URL)
    /\ remote = <<"codeberg.org">> /\ owner = <<"acme">> /\ repo = <<"site">>
    /\ FileWritten
    /\ Section(file)["remote"] = <<"codeberg.org">>
    /\ Section(file)["owner"] = <<"acme">>
    /\ Section(file)["repository"] = <<"site">>
    /\ Len(CogCalls("changelog")) = 1
    /\ HasFlag(CogCalls("changelog")[1], "--remote", <<"codeberg.org">>)
    /\ Len(api_calls) = 1
    /\ api_calls[1].owner = <<"acme">> /\ api_calls[1].repo = <<"site">>

----------------------------------------------------------------------------
(* C22 *)

\* The changelog section the Config Synchronizer has to leave: what the file
\* had, and the supplied value for each field it lacked
ExpectedSection ==
    LET old == Section(file_at_start)
    IN  [k \in DOMAIN old \cup FieldsToSet |->
            IF k \in DOMAIN old THEN old[k] ELSE Supplied(k)]

\* The document it has to leave
ExpectedDoc ==
    IF FieldsToSet = {} THEN file_at_start.doc
    ELSE [k \in DOMAIN file_at_start.doc \cup {"changelog"} |->
            IF k = "changelog" THEN ExpectedSection ELSE file_at_start.doc[k]]

\* The git calls made are the ones the exit statuses call for: add; diff
\* --cached --quiet when add succeeded; commit when the diff exited non-zero;
\* push when the commit succeeded
GitCallsFollowExitStatuses ==
    LET g == SyncGitCalls
    IN  /\ Len(g) \in 1..4
        /\ Argvs(g) = SubSeq(<<GitAdd, GitDiffCached, GitCommit, GitPush>>, 1, Len(g))
        /\ Len(g) = 1 => g[1].rc # 0
        /\ Len(g) = 2 => g[1].rc = 0 /\ g[2].rc = 0
        /\ Len(g) = 3 => g[1].rc = 0 /\ g[2].rc # 0 /\ g[3].rc # 0
        /\ Len(g) = 4 => g[1].rc = 0 /\ g[2].rc # 0 /\ g[3].rc = 0

\* C22: what the Config Synchronizer step writes and which git calls it makes
\* is fixed by the configuration file, the coordinates, the update toggle and
\* the exit statuses of git alone.  The dry-run decision is no part of it: a
\* DRY_RUN run and a LIVE run that agree on those perform the same write and
\* the same add, commit and push.
C22_SyncIgnoresDryRun ==
    Ran("setup_cog_configuration") =>
        IF ~SyncEnabled \/ ~file_at_start.exists \/ ~file_at_start.parses
        THEN /\ file = file_at_start
             /\ SyncGitCalls = <<>>
             /\ changes_made = FALSE
        ELSE /\ file.doc = ExpectedDoc
             /\ FileWritten <=> FieldsToSet # {}
             /\ changes_made <=> FieldsToSet # {}
             /\ FieldsToSet = {} => SyncGitCalls = <<>>
             /\ FieldsToSet # {} => GitCallsFollowExitStatuses

\* A dry run that wrote cog.toml, committed it and pushed it
C22_Witness ==
    /\ dry_run
    /\ Ran("setup_cog_configuration")
    /\ FileWritten /\ file.doc = ExpectedDoc
    /\ Argvs(SyncGitCalls) = <<GitAdd, GitDiffCached, GitCommit, GitPush>>
    /\ SyncGitCalls[3].rc = 0 /\ SyncGitCalls[4].rc = 0
    /\ Len(CogCalls("bump")) = 1
    /\ HasArg(CogCalls("bump")[1], "--dry-run")

====
